---------------------------- MODULE Spec2Model ----------------------------
(***************************************************************************)
(* Model of the AiDUC content-adaptation endpoints of src/main.py:         *)
(* neotutor_ask, flexa_convert, eyeread_scan and pathly_plan.              *)
(*                                                                         *)
(* A Python str is modelled as a sequence of pieces.  Every character that *)
(* comes from a request is a piece of its own (a one-character string);    *)
(* a literal of the source text that is copied into an output is one piece *)
(* holding the whole literal.  Python's None is the string "None".         *)
(***************************************************************************)
EXTENDS Integers, Sequences, FiniteSets, TLC

VARIABLES req, resp

vars == <<req, resp>>

-----------------------------------------------------------------------------
(* Bounds of the model.                                                    *)

MaxTextFrags == 4
MaxQuestionFrags == 3
MaxTopicLen == 3
MaxProficiency == 6

-----------------------------------------------------------------------------
(* Program constants.                                                      *)

QuestionMinLength == 3
TextMinLength == 1
TopicMinLength == 2
ProficiencyGe == 1
ProficiencyLe == 5
DasarMax == 2
MenengahAt == 3
TopicEcho == 80
SummarySentences == 2
GlossWords == 8

None == "None"

-----------------------------------------------------------------------------
(* Python str and list primitives used by the handlers.                    *)

\* str.strip() with no argument removes these (ASCII) whitespace characters.
Whitespace == {" ", "\t", "\n", "\r", "\f"}

LowerLetters ==
  <<"a","b","c","d","e","f","g","h","i","j","k","l","m",
    "n","o","p","q","r","s","t","u","v","w","x","y","z">>

UpperLetters ==
  <<"A","B","C","D","E","F","G","H","I","J","K","L","M",
    "N","O","P","Q","R","S","T","U","V","W","X","Y","Z">>

Min(a, b) == IF a < b THEN a ELSE b

RECURSIVE lstrip(_)
lstrip(s) ==
  IF s = <<>> THEN s
  ELSE IF Head(s) \in Whitespace THEN lstrip(Tail(s)) ELSE s

RECURSIVE rstrip(_)
rstrip(s) ==
  IF s = <<>> THEN s
  ELSE IF s[Len(s)] \in Whitespace THEN rstrip(SubSeq(s, 1, Len(s) - 1)) ELSE s

strip(s) == rstrip(lstrip(s))

\* s.replace(old, new) for one-character old and new
replace(s, old, new) == [i \in 1..Len(s) |-> IF s[i] = old THEN new ELSE s[i]]

\* s.split(sep) for a one-character sep: empty fragments are kept
RECURSIVE SplitFrom(_, _, _, _)
SplitFrom(s, sep, cur, acc) ==
  IF s = <<>> THEN Append(acc, cur)
  ELSE IF Head(s) = sep
       THEN SplitFrom(Tail(s), sep, <<>>, Append(acc, cur))
       ELSE SplitFrom(Tail(s), sep, Append(cur, Head(s)), acc)

split(s, sep) == SplitFrom(s, sep, <<>>, <<>>)

\* sep.join(list)
RECURSIVE join(_, _)
join(sep, list) ==
  IF list = <<>> THEN <<>>
  ELSE IF Len(list) = 1 THEN list[1]
  ELSE list[1] \o sep \o join(sep, Tail(list))

\* list[:n] and s[:n]
Take(s, n) == SubSeq(s, 1, Min(n, Len(s)))

UpperChar(c) ==
  IF \E i \in DOMAIN LowerLetters : LowerLetters[i] = c
  THEN UpperLetters[CHOOSE i \in DOMAIN LowerLetters : LowerLetters[i] = c]
  ELSE c

LowerChar(c) ==
  IF \E i \in DOMAIN UpperLetters : UpperLetters[i] = c
  THEN LowerLetters[CHOOSE i \in DOMAIN UpperLetters : UpperLetters[i] = c]
  ELSE c

upper(s) == [i \in 1..Len(s) |-> UpperChar(s[i])]

lower(s) == [i \in 1..Len(s) |-> LowerChar(s[i])]

\* k in s
contains(s, k) ==
  \E i \in 0..(Len(s) - Len(k)) : SubSeq(s, i + 1, i + Len(k)) = k

\* s.endswith(suffix)
endswith(s, suffix) ==
  /\ Len(s) >= Len(suffix)
  /\ SubSeq(s, Len(s) - Len(suffix) + 1, Len(s)) = suffix

MapStrip(list) == [i \in 1..Len(list) |-> strip(list[i])]

MapUpper(list) == [i \in 1..Len(list) |-> upper(list[i])]

NonEmpty(s) == s # <<>>

-----------------------------------------------------------------------------
(* NeoTutor                                                                *)

Keywords ==
  << <<"r","u","m","u","s">>,
     <<"f","o","r","m","u","l","a">>,
     <<"l","u","a","s">>,
     <<"k","e","l","i","l","i","n","g">> >>

tips ==
  << "Baca soal perlahan dan tandai kata kunci.",
     "Ubah pertanyaan menjadi kalimat pernyataan untuk membantu memahami.",
     "Coba jelaskan kembali dengan bahasamu sendiri." >>

ComputationalSteps ==
  << "Identifikasi besaran yang diketahui",
     "Tulis rumus yang sesuai",
     "Substitusi nilai, hitung tahap demi tahap",
     "Tulis jawaban dengan satuan yang benar" >>

ComputationalAnswer ==
  "Untuk soal berhitung, gunakan rumus yang tepat lalu hitung tahap demi tahap."

InterrogativeSteps ==
  << "Pahami pertanyaan", "Cari konsep utama", "Berikan contoh sederhana", "Simpulkan" >>

InterrogativeAnswer ==
  "Berikut penjelasan singkat dengan bahasa sederhana sesuai pertanyaanmu."

DefaultSteps ==
  << "Pecah persoalan", "Cari definisi", "Hubungkan dengan contoh", "Simpulkan" >>

DefaultAnswer == "Ini adalah jawaban ringkas yang mudah diikuti."

HasKeyword(q) == \E i \in DOMAIN Keywords : contains(lower(q), Keywords[i])

AskBranch_QuestionMarkFirst(q) ==
  IF endswith(q, <<"?">>) THEN "interrogative"
  ELSE IF HasKeyword(q) THEN "computational"
  ELSE "default"

AskBranch(q) ==
  IF HasKeyword(q) THEN "computational"
  ELSE IF endswith(q, <<"?">>) THEN "interrogative"
  ELSE "default"

AskSteps(branch) ==
  CASE branch = "computational" -> ComputationalSteps
    [] branch = "interrogative" -> InterrogativeSteps
    [] branch = "default" -> DefaultSteps

AskBranchAnswer(branch) ==
  CASE branch = "computational" -> ComputationalAnswer
    [] branch = "interrogative" -> InterrogativeAnswer
    [] branch = "default" -> DefaultAnswer

AskTopic_Whole(q) == q

AskTopic(q) == Take(q, TopicEcho)

AskAnswer(q, answer) == <<"Menjawab: '">> \o AskTopic(q) \o <<"'. ">> \o <<answer>>

neotutor_ask_ByLevel(payload) ==
  LET q == strip(payload.question)
      branch == IF payload.level = "sd" THEN "default" ELSE AskBranch(q)
  IN  [answer |-> AskAnswer(q, AskBranchAnswer(branch)),
       steps |-> AskSteps(branch), tips |-> tips]

neotutor_ask(payload) ==
  LET q == strip(payload.question)
      branch == AskBranch(q)
  IN  [answer |-> AskAnswer(q, AskBranchAnswer(branch)),
       steps |-> AskSteps(branch), tips |-> tips]

AskRequestValid(payload) == Len(payload.question) >= QuestionMinLength

-----------------------------------------------------------------------------
(* Flexa and EyeRead                                                       *)

sentences_Unstripped(text) ==
  SelectSeq(split(replace(replace(text, "!", "."), "?", "."), "."),
            LAMBDA s : strip(s) # <<>>)

sentences(text) ==
  SelectSeq(MapStrip(split(replace(replace(text, "!", "."), "?", "."), ".")), NonEmpty)

summary_JoinAll(text) ==
  LET ss == sentences(text)
      joined == join(<<".", " ">>, ss)
  IN  IF Len(ss) > SummarySentences THEN joined \o <<".", ".", ".">> ELSE joined

summary_EllipsisFromTwo(text) ==
  LET ss == sentences(text)
      joined == join(<<".", " ">>, Take(ss, SummarySentences))
  IN  IF Len(ss) >= SummarySentences THEN joined \o <<".", ".", ".">> ELSE joined

summary(text) ==
  LET ss == sentences(text)
      joined == join(<<".", " ">>, Take(ss, SummarySentences))
  IN  IF Len(ss) > SummarySentences THEN joined \o <<".", ".", ".">> ELSE joined

words(text) == SelectSeq(split(replace(text, "\n", " "), " "), NonEmpty)

gloss(text) == MapUpper(Take(words(text), GlossWords))

flexa_convert_Verbatim(payload) ==
  LET text == strip(payload.text)
  IN  [audio_url |-> None, large_text |-> payload.text,
       summary |-> summary(text), sign_gloss |-> gloss(text)]

flexa_convert(payload) ==
  LET text == strip(payload.text)
  IN  [audio_url |-> None, large_text |-> text,
       summary |-> summary(text), sign_gloss |-> gloss(text)]

eyeread_scan(payload) ==
  LET text == strip(payload.text)
  IN  [text |-> text, summary |-> summary(text), audio_url |-> None]

TextRequestValid(payload) == Len(payload.text) >= TextMinLength

-----------------------------------------------------------------------------
(* Pathly                                                                  *)

PathItem(title, objective, activity) ==
  [title |-> title, objective |-> objective, activity |-> activity]

PlanLevel_Below(p) ==
  IF p < DasarMax THEN "dasar"
  ELSE IF p = MenengahAt THEN "menengah"
  ELSE "lanjutan"

PlanLevel(p) ==
  IF p <= DasarMax THEN "dasar"
  ELSE IF p = MenengahAt THEN "menengah"
  ELSE "lanjutan"

FirstTitle(level, topic) ==
  CASE level = "dasar" -> <<"Pengenalan ">> \o topic
    [] level = "menengah" -> <<"Pendalaman ">> \o topic
    [] level = "lanjutan" -> <<"Aplikasi ">> \o topic

FirstItem(level, topic) ==
  CASE level = "dasar" ->
         PathItem(FirstTitle(level, topic), <<"Memahami konsep inti">>,
                  <<"Baca ringkasan + 3 contoh">>)
    [] level = "menengah" ->
         PathItem(FirstTitle(level, topic), <<"Menghubungkan konsep">>,
                  <<"Buat peta konsep sederhana">>)
    [] level = "lanjutan" ->
         PathItem(FirstTitle(level, topic), <<"Pemecahan masalah">>,
                  <<"Proyek mini 1 halaman">>)

SecondItem(level) ==
  CASE level = "dasar" ->
         PathItem(<<"Latihan ringan">>, <<"Menguatkan pemahaman">>,
                  <<"Kerjakan 5 soal pilihan ganda">>)
    [] level = "menengah" ->
         PathItem(<<"Latihan terarah">>, <<"Terapan dasar">>,
                  <<"Kerjakan 5 soal cerita">>)
    [] level = "lanjutan" ->
         PathItem(<<"Refleksi">>, <<"Menjelaskan ke orang lain">>,
                  <<"Tulis ringkasan 150 kata">>)

Recommended(level) ==
  CASE level = "dasar" -> <<"Video pengantar 5 menit", "Kartu ringkas istilah">>
    [] level = "menengah" -> <<"Artikel ringkas", "Latihan interaktif">>
    [] level = "lanjutan" -> <<"Bank soal tingkat lanjut", "Topik terkait untuk eksplorasi">>

PlanItems(level, topic) == <<FirstItem(level, topic), SecondItem(level)>>

pathly_plan_Unstripped(payload) ==
  LET topic == payload.topic
      level == PlanLevel(payload.proficiency)
  IN  [level |-> level, plan |-> <<FirstItem(level, topic), SecondItem(level)>>,
       recommended |-> Recommended(level)]

pathly_plan(payload) ==
  LET topic == strip(payload.topic)
      level == PlanLevel(payload.proficiency)
  IN  [level |-> level, plan |-> PlanItems(level, topic),
       recommended |-> Recommended(level)]

PathlyRequestValid(payload) ==
  /\ Len(payload.topic) >= TopicMinLength
  /\ payload.proficiency >= ProficiencyGe
  /\ payload.proficiency <= ProficiencyLe

-----------------------------------------------------------------------------
(* Requests the HTTP layer can hand to the application.                    *)

RECURSIVE Concat(_)
Concat(list) == IF list = <<>> THEN <<>> ELSE Head(list) \o Concat(Tail(list))

SeqsUpTo(S, n) == UNION {[1..k -> S] : k \in 0..n}

Pad == [i \in 1..(TopicEcho \div 2 + 1) |-> "x"]

TextFrags ==
  { <<"a", "B">>, <<".">>, <<"!">>, <<"?">>, <<" ">>, <<"\n">>, <<"\t">>,
    <<"w", " ", "w", " ", "w", ".", " ">> }

QuestionFrags ==
  { <<"r","u","m">>, <<"u","s">>, <<"R","u","M","U","S">>, <<"f","o","r","m","u","l","a">>,
    <<"L","u","a","s">>, <<"K","E","L","I","L","I","N","G">>,
    <<"?">>, <<" ">>, <<"a","p","a">>, Pad }

TopicChars == {"P", "a", " ", "<"}

Levels == {"umum", "sd", "smp", "sma", None}

TextFragLists == SeqsUpTo(TextFrags, MaxTextFrags)

QuestionFragLists == SeqsUpTo(QuestionFrags, MaxQuestionFrags)

Topics == SeqsUpTo(TopicChars, MaxTopicLen)

AskRequest(question, level) ==
  [op |-> "neotutor_ask", question |-> question, level |-> level]

FlexaRequest(text) == [op |-> "flexa_convert", text |-> text]

EyeReadRequest(text) == [op |-> "eyeread_scan", text |-> text]

PathlyRequest(topic, proficiency) ==
  [op |-> "pathly_plan", topic |-> topic, proficiency |-> proficiency]

Pending == [status |-> "pending"]

Ok(body) == [status |-> "ok", body |-> body]

Unprocessable == [status |-> "unprocessable"]

RequestValid(r) ==
  CASE r.op = "neotutor_ask" -> AskRequestValid(r)
    [] r.op = "flexa_convert" -> TextRequestValid(r)
    [] r.op = "eyeread_scan" -> TextRequestValid(r)
    [] r.op = "pathly_plan" -> PathlyRequestValid(r)

-----------------------------------------------------------------------------
(* The state machine: one request arrives, its handler answers it.         *)

Init ==
  /\ resp = Pending
  /\ \/ \E fs \in QuestionFragLists, l \in Levels : req = AskRequest(Concat(fs), l)
     \/ \E fs \in TextFragLists : req = FlexaRequest(Concat(fs))
     \/ \E fs \in TextFragLists : req = EyeReadRequest(Concat(fs))
     \/ \E t \in Topics, p \in 0..MaxProficiency : req = PathlyRequest(t, p)

NeotutorAsk ==
  /\ resp = Pending
  /\ req.op = "neotutor_ask"
  /\ AskRequestValid(req)
  /\ resp' = Ok(neotutor_ask(req))
  /\ UNCHANGED req

FlexaConvert ==
  /\ resp = Pending
  /\ req.op = "flexa_convert"
  /\ TextRequestValid(req)
  /\ resp' = Ok(flexa_convert(req))
  /\ UNCHANGED req

EyereadScan ==
  /\ resp = Pending
  /\ req.op = "eyeread_scan"
  /\ TextRequestValid(req)
  /\ resp' = Ok(eyeread_scan(req))
  /\ UNCHANGED req

PathlyPlan ==
  /\ resp = Pending
  /\ req.op = "pathly_plan"
  /\ PathlyRequestValid(req)
  /\ resp' = Ok(pathly_plan(req))
  /\ UNCHANGED req

ValidationError ==
  /\ resp = Pending
  /\ ~RequestValid(req)
  /\ resp' = Unprocessable
  /\ UNCHANGED req

Next ==
  \/ NeotutorAsk
  \/ FlexaConvert
  \/ EyereadScan
  \/ PathlyPlan
  \/ ValidationError

Spec == Init /\ [][Next]_vars

Answered(op) == req.op = op /\ resp.status = "ok"

TypeOK == resp.status \in {"pending", "ok", "unprocessable"}

-----------------------------------------------------------------------------
(* Vocabulary of the properties.                                           *)

\* t without the whitespace before its first and after its last character
\* that is not whitespace
Trimmed(t) ==
  LET inked == {i \in DOMAIN t : t[i] \notin Whitespace}
  IN  IF inked = {} THEN <<>>
      ELSE SubSeq(t, CHOOSE i \in inked : \A j \in inked : i <= j,
                     CHOOSE i \in inked : \A j \in inked : i >= j)

IsTrimOf(s, t) == s = Trimmed(t)

Terminators == {".", "!", "?"}

RECURSIVE Without(_, _)
Without(s, drop) ==
  IF s = <<>> THEN <<>>
  ELSE IF Head(s) \in drop THEN Without(Tail(s), drop)
  ELSE <<Head(s)>> \o Without(Tail(s), drop)

\* The entries of list occur in t one after the other, without overlap.
RECURSIVE OccurInOrder(_, _, _)
OccurInOrder(list, t, from) ==
  IF list = <<>> THEN TRUE
  ELSE LET e == Head(list)
           at == {i \in from..(Len(t) - Len(e) + 1) : SubSeq(t, i, i + Len(e) - 1) = e}
       IN  /\ at # {}
           /\ OccurInOrder(Tail(list), t,
                           (CHOOSE i \in at : \A j \in at : i <= j) + Len(e))

Summarised == Answered("flexa_convert") \/ Answered("eyeread_scan")

-----------------------------------------------------------------------------
(* Claims                                                                  *)

\* C1: when the text has more than two sentences, the summary returned by
\* flexa_convert and by eyeread_scan is the first sentence, ". ", the second
\* sentence and "...", and nothing else.
C1_SummaryOfLongText ==
  Summarised =>
    LET ss == sentences(req.text)
    IN  Len(ss) > 2 =>
          /\ resp.body.summary = ss[1] \o <<".", " ">> \o ss[2] \o <<".", ".", ".">>
          /\ endswith(resp.body.summary, <<".", ".", ".">>)

C1_Witness ==
  /\ Answered("eyeread_scan")
  /\ Len(sentences(req.text)) > 2
  /\ Len(sentences(req.text)[1]) > 1
  /\ sentences(req.text)[3] # sentences(req.text)[2]

\* C2: the sign_gloss list of flexa_convert has at most 8 entries, every entry
\* is upper-case, and no entry holds a whitespace character (space, newline,
\* tab, carriage return).
C2_GlossTokens ==
  Answered("flexa_convert") =>
    /\ Len(resp.body.sign_gloss) <= 8
    /\ \A i \in DOMAIN resp.body.sign_gloss :
         LET w == resp.body.sign_gloss[i]
         IN  \A j \in DOMAIN w :
               /\ \A k \in DOMAIN LowerLetters : w[j] # LowerLetters[k]
               /\ w[j] \notin Whitespace

\* C3: neotutor_ask takes the computational branch exactly when the trimmed
\* question holds one of the four keywords in any letter case, whether or not
\* it ends with "?"; the interrogative branch exactly when no keyword matches
\* and it ends with "?"; the default branch exactly when neither holds.
C3_BranchPrecedence ==
  Answered("neotutor_ask") =>
    LET q == Trimmed(req.question)
        keyword == \E i \in DOMAIN Keywords :
                     \E at \in 0..(Len(q) - Len(Keywords[i])) :
                       \A j \in 1..Len(Keywords[i]) :
                         q[at + j] \in {Keywords[i][j], UpperChar(Keywords[i][j])}
        asks == q # <<>> /\ q[Len(q)] = "?"
        last == resp.body.answer[Len(resp.body.answer)]
    IN  /\ keyword =>
             resp.body.steps = ComputationalSteps /\ last = ComputationalAnswer
        /\ (~keyword /\ asks) =>
             resp.body.steps = InterrogativeSteps /\ last = InterrogativeAnswer
        /\ (~keyword /\ ~asks) =>
             resp.body.steps = DefaultSteps /\ last = DefaultAnswer
        /\ Len(resp.body.steps) = 4

C3_Witness ==
  /\ Answered("neotutor_ask")
  /\ req.question = <<"R", "u", "M", "U", "S", "?", " ">>
  /\ resp.body.steps = ComputationalSteps

\* C4: pathly_plan answers level "dasar" for proficiency 1 and 2, "menengah"
\* for 3 and "lanjutan" for 4 and 5, and always two plan items and two
\* recommendations.
C4_PlanTiers ==
  Answered("pathly_plan") =>
    /\ req.proficiency \in 1..5
    /\ req.proficiency \in {1, 2} => resp.body.level = "dasar"
    /\ req.proficiency = 3 => resp.body.level = "menengah"
    /\ req.proficiency \in {4, 5} => resp.body.level = "lanjutan"
    /\ Len(resp.body.plan) = 2
    /\ Len(resp.body.recommended) = 2

C4_Witness ==
  /\ Answered("pathly_plan")
  /\ req.proficiency = 4
  /\ resp.body.level = "lanjutan"

\* C5: the sentence list of a text has no empty and no whitespace-only entry,
\* no entry starts or ends with whitespace or holds a terminator, and the
\* entries are the text's fragments in their original order.
C5_Sentences ==
  Summarised =>
    LET ss == sentences(req.text)
    IN  /\ \A i \in DOMAIN ss :
             /\ ss[i] # <<>>
             /\ \E j \in DOMAIN ss[i] : ss[i][j] \notin Whitespace
             /\ ss[i][1] \notin Whitespace
             /\ ss[i][Len(ss[i])] \notin Whitespace
             /\ \A j \in DOMAIN ss[i] : ss[i][j] \notin Terminators
        /\ OccurInOrder(ss, req.text, 1)
        /\ Without(Concat(ss), Whitespace)
             = Without(req.text, Whitespace \cup Terminators)

C5_Witness ==
  /\ Answered("flexa_convert")
  /\ Len(sentences(req.text)) = 2
  /\ contains(req.text, <<".", " ">>)
  /\ contains(req.text, <<"!", "?">>)

\* C6: when the text has at most two sentences the summary does not end with
\* "...": it is empty with no sentence, the sentence itself with one, and the
\* two sentences joined by ". " with two.
C6_SummaryOfShortText ==
  Summarised =>
    LET ss == sentences(req.text)
    IN  Len(ss) <= 2 =>
          /\ ~endswith(resp.body.summary, <<".", ".", ".">>)
          /\ Len(ss) = 0 => resp.body.summary = <<>>
          /\ Len(ss) = 1 => resp.body.summary = ss[1]
          /\ Len(ss) = 2 => resp.body.summary = ss[1] \o <<".", " ">> \o ss[2]

C6_Witness ==
  /\ Answered("flexa_convert")
  /\ Len(sentences(req.text)) = 1
  /\ endswith(req.text, <<".", ".", ".">>)
  /\ resp.body.summary = <<"a", "B">>

\* C7: the answer of neotutor_ask is "Menjawab: '", the first 80 characters of
\* the trimmed question (all of it when shorter), "'. ", and the fixed answer
\* text of the branch whose steps were returned.
C7_AnswerRendering ==
  Answered("neotutor_ask") =>
    LET a == resp.body.answer
        q == Trimmed(req.question)
        n == IF Len(q) < 80 THEN Len(q) ELSE 80
    IN  /\ Len(a) = n + 3
        /\ a[1] = "Menjawab: '"
        /\ \A i \in 1..n : a[i + 1] = q[i]
        /\ a[n + 2] = "'. "
        /\ resp.body.steps = ComputationalSteps => a[n + 3] = ComputationalAnswer
        /\ resp.body.steps = InterrogativeSteps => a[n + 3] = InterrogativeAnswer
        /\ resp.body.steps = DefaultSteps => a[n + 3] = DefaultAnswer
        /\ resp.body.steps \in {ComputationalSteps, InterrogativeSteps, DefaultSteps}

C7_Witness ==
  /\ Answered("neotutor_ask")
  /\ Len(strip(req.question)) > 80
  /\ Len(strip(req.question)) < Len(req.question)
  /\ Len(resp.body.answer) = 83

\* C8 as stated: the title and the objective of the first plan item both
\* contain the topic exactly as the request supplied it.
C8_TopicVerbatimInTitleAndObjective ==
  Answered("pathly_plan") =>
    /\ contains(resp.body.plan[1].title, req.topic)
    /\ contains(resp.body.plan[1].objective, req.topic)

\* C8 amended: the title of the first plan item is the tier's fixed prefix
\* followed by the topic with its leading and trailing whitespace removed and
\* no other change; the objective of the first item is the tier's fixed text;
\* the second item is the tier's fixed item.
C8_TrimmedTopicInTitle ==
  Answered("pathly_plan") =>
    LET first == resp.body.plan[1]
        level == resp.body.level
    IN  /\ Len(first.title) >= 1
        /\ level = "dasar" => first.title[1] = "Pengenalan "
        /\ level = "menengah" => first.title[1] = "Pendalaman "
        /\ level = "lanjutan" => first.title[1] = "Aplikasi "
        /\ IsTrimOf(Tail(first.title), req.topic)
        /\ level = "dasar" => first.objective = <<"Memahami konsep inti">>
        /\ level = "menengah" => first.objective = <<"Menghubungkan konsep">>
        /\ level = "lanjutan" => first.objective = <<"Pemecahan masalah">>
        /\ level = "dasar" => resp.body.plan[2].title = <<"Latihan ringan">>
        /\ level = "menengah" => resp.body.plan[2].title = <<"Latihan terarah">>
        /\ level = "lanjutan" => resp.body.plan[2].title = <<"Refleksi">>
        /\ \A f \in {"title", "objective", "activity"} : Len(resp.body.plan[2][f]) = 1

C8_Witness ==
  /\ Answered("pathly_plan")
  /\ req.topic = <<" ", "P", "<">>
  /\ resp.body.level = "menengah"
  /\ resp.body.plan[1].title = <<"Pendalaman ", "P", "<">>

\* C9 as stated: flexa_convert returns the request's text unchanged as
\* large_text, leading and trailing whitespace included; eyeread_scan returns
\* the trimmed text; both return no audio reference.
C9_LargeTextVerbatim ==
  /\ Answered("flexa_convert") =>
       resp.body.large_text = req.text /\ resp.body.audio_url = "None"
  /\ Answered("eyeread_scan") =>
       IsTrimOf(resp.body.text, req.text) /\ resp.body.audio_url = "None"

\* C9 amended: flexa_convert returns as large_text the request's text with its
\* leading and trailing whitespace removed and no other change, and so does
\* eyeread_scan as text; both return no audio reference.
C9_LargeTextTrimmed ==
  /\ Answered("flexa_convert") =>
       IsTrimOf(resp.body.large_text, req.text) /\ resp.body.audio_url = "None"
  /\ Answered("eyeread_scan") =>
       IsTrimOf(resp.body.text, req.text) /\ resp.body.audio_url = "None"

C9_Witness ==
  /\ Answered("flexa_convert")
  /\ req.text = <<" ", "a", "B", "\n">>
  /\ resp.body.large_text = <<"a", "B">>

\* C10: the response of neotutor_ask to a question is the same for every
\* level, the default "umum" and no level included, and its tips are always
\* the same three strings.
C10_LevelInert ==
  Answered("neotutor_ask") =>
    /\ \A l \in Levels : neotutor_ask([req EXCEPT !.level = l]) = resp.body
    /\ Len(resp.body.tips) = 3
    /\ resp.body.tips[1] = "Baca soal perlahan dan tandai kata kunci."
    /\ resp.body.tips[2]
         = "Ubah pertanyaan menjadi kalimat pernyataan untuk membantu memahami."
    /\ resp.body.tips[3] = "Coba jelaskan kembali dengan bahasamu sendiri."

C10_Witness ==
  /\ Answered("neotutor_ask")
  /\ req.level = "sd"
  /\ resp.body.steps = InterrogativeSteps

=============================================================================
